---- MODULE Spec2Model ----
(***************************************************************************)
(* Model of webviz_subsurface/_abbreviations/reservoir_simulation.py:      *)
(* simulation_unit_reformat, simulation_vector_base,                       *)
(* simulation_vector_description and historical_vector.                    *)
(*                                                                         *)
(* A Python str is a sequence of one-character strings.  An Optional       *)
(* value is a sequence of length 0 (None) or 1 (the value).                *)
(***************************************************************************)
EXTENDS Integers, Sequences, FiniteSets, TLC

VARIABLES
    op,                                     \* the function being called
    SIMULATION_VECTOR_TERMINOLOGY,          \* module table: name -> {description, type}
    RESERVOIR_SIMULATION_UNIT_TERMINOLOGY,  \* module table: unit set -> raw unit -> unit
    vector,                                 \* argument `vector`
    ecl_unit,                               \* argument `ecl_unit`
    unit_set,                               \* argument `unit_set`
    smry_meta,                              \* argument `smry_meta` (Optional table)
    return_historical,                      \* argument `return_historical`
    pc,                                     \* "call" before the function ran, "done" after
    returned,                               \* Optional return value
    raised,                                 \* "" or the name of the exception that escaped
    warnings,                               \* number of warnings.warn calls made
    reached                                 \* branches of historical_vector entered

vars == <<op, SIMULATION_VECTOR_TERMINOLOGY, RESERVOIR_SIMULATION_UNIT_TERMINOLOGY,
          vector, ecl_unit, unit_set, smry_meta, return_historical,
          pc, returned, raised, warnings, reached>>

None == << >>
Some(x) == <<x>>

----------------------------------------------------------------------------
(* Bounds of the model                                                     *)

\* longest arbitrary vector string given to simulation_vector_base / historical_vector
MaxLen == 4
\* longest arbitrary vector string given to simulation_vector_description
MaxDescLen == 3

Alphabet == {"F", "G", "W", "H", "R", "_", ":"}

Strings(n) == UNION {[1..k -> Alphabet] : k \in 0..n}

----------------------------------------------------------------------------
(* Python str methods, as the code uses them                               *)

\* c in s
contains(s, c) == \E i \in 1..Len(s) : s[i] = c

\* s.find(c) + 1: the 1-based position of the first c, 0 when there is none
find(s, c) ==
    IF contains(s, c)
    THEN CHOOSE i \in 1..Len(s) : s[i] = c /\ \A j \in 1..(i - 1) : s[j] # c
    ELSE 0

\* s.split(sep, 1): at most one cut, at the first sep
split_1(s, sep) ==
    LET i == find(s, sep)
    IN  IF i = 0 THEN <<s>>
        ELSE <<SubSeq(s, 1, i - 1), SubSeq(s, i + 1, Len(s))>>

\* sep.join(parts) for the one or two parts split_1 gives
join(sep, parts) ==
    IF Len(parts) = 1 THEN parts[1]
    ELSE parts[1] \o <<sep>> \o parts[2]

\* s.rstrip(c)
RECURSIVE rstrip(_, _)
rstrip(s, c) ==
    IF Len(s) > 0 /\ s[Len(s)] = c
    THEN rstrip(SubSeq(s, 1, Len(s) - 1), c)
    ELSE s

\* s.replace(a, b) for one-character a and b
replace(s, a, b) == [i \in 1..Len(s) |-> IF s[i] = a THEN b ELSE s[i]]

\* s.endswith(c)
endswith(s, c) == Len(s) > 0 /\ s[Len(s)] = c

\* s.startswith(tuple of one-character prefixes)
startswith(s, prefixes) == Len(s) > 0 /\ s[1] \in prefixes

\* s.rstrip("H"): every trailing "H" goes
drop_every_last(s) == rstrip(s, "H")

\* s[:-1]
drop_last(s) == IF Len(s) = 0 THEN s ELSE SubSeq(s, 1, Len(s) - 1)

----------------------------------------------------------------------------
(* The functions of the module                                             *)

\* what a call leaves behind: the return value or the escaped exception,
\* the warnings issued and the branches entered
Outcome(ret, exc, warned, branches) ==
    [returned |-> ret, raised |-> exc, warnings |-> warned, reached |-> branches]

Return(value) == Outcome(Some(value), "", 0, {})

\* a lookup that forgives an unknown unit set: terminology.get(set, {}).get(unit, unit)
simulation_unit_reformat_lenient(unit, set, terminology) ==
    IF set \in DOMAIN terminology /\ unit \in DOMAIN terminology[set]
    THEN Return(terminology[set][unit])
    ELSE Return(unit)

simulation_unit_reformat(unit, set, terminology) ==
    IF set \notin DOMAIN terminology
    THEN Outcome(None, "KeyError", 0, {})
    ELSE IF unit \in DOMAIN terminology[set]
         THEN Return(terminology[set][unit])
         ELSE Return(unit)

\* a cut at the colon alone
simulation_vector_base_colon_only(v) == split_1(v, ":")[1]

simulation_vector_base(v) == split_1(split_1(v, ":")[1], "_")[1]

\* the width of a region vector written on the special form
VECTOR_NAME_WIDTH == 8
\* the width of the base name inside it
BASE_NAME_WIDTH == 5

REGION == <<"r", "e", "g", "i", "o", "n">>

\* [vector_name, node] = vector.split(":", 1) if ":" in vector else [vector, None]
name_and_node(v) ==
    IF contains(v, ":")
    THEN [vector_name |-> split_1(v, ":")[1], node |-> Some(split_1(v, ":")[2])]
    ELSE [vector_name |-> v, node |-> None]

\* a reinterpretation that adopts any base name of the table, region or not
region_form_any_type(vector_name, terminology) ==
    IF Len(vector_name) = VECTOR_NAME_WIDTH
    THEN LET vector_base_name == rstrip(SubSeq(vector_name, 1, BASE_NAME_WIDTH), "_")
             fip == SubSeq(vector_name, BASE_NAME_WIDTH + 1, Len(vector_name))
         IN  IF vector_base_name \in DOMAIN terminology
             THEN [vector_name |-> vector_base_name, fip |-> Some(fip)]
             ELSE [vector_name |-> vector_name, fip |-> None]
    ELSE [vector_name |-> vector_name, fip |-> None]

\* a reinterpretation that forgets fip = None when the type is not region
region_form_keeps_fip(vector_name, terminology) ==
    IF Len(vector_name) = VECTOR_NAME_WIDTH
    THEN LET vector_base_name == rstrip(SubSeq(vector_name, 1, BASE_NAME_WIDTH), "_")
             fip == SubSeq(vector_name, BASE_NAME_WIDTH + 1, Len(vector_name))
         IN  IF vector_base_name \in DOMAIN terminology
             THEN IF terminology[vector_base_name].type = REGION
                  THEN [vector_name |-> vector_base_name, fip |-> Some(fip)]
                  ELSE [vector_name |-> vector_name, fip |-> Some(fip)]
             ELSE [vector_name |-> vector_name, fip |-> None]
    ELSE [vector_name |-> vector_name, fip |-> None]

\* the region-vector reinterpretation of vector_name: the name to look up and fip
region_form(vector_name, terminology) ==
    IF Len(vector_name) = VECTOR_NAME_WIDTH
    THEN LET vector_base_name == rstrip(SubSeq(vector_name, 1, BASE_NAME_WIDTH), "_")
             fip == SubSeq(vector_name, BASE_NAME_WIDTH + 1, Len(vector_name))
         IN  IF vector_base_name \in DOMAIN terminology
             THEN IF terminology[vector_base_name].type = REGION
                  THEN [vector_name |-> vector_base_name, fip |-> Some(fip)]
                  ELSE [vector_name |-> vector_name, fip |-> None]
             ELSE [vector_name |-> vector_name, fip |-> None]
    ELSE [vector_name |-> vector_name, fip |-> None]

\* a node text that leaves fip out
node_text_without_fip(metadata, fip, node) ==
    <<",", " ">> \o replace(metadata.type, "_", " ") \o <<" ">> \o node

\* the text appended to the description when the vector has a node
node_text(metadata, fip, node) ==
    IF fip # None
    THEN <<",", " ">> \o replace(metadata.type, "_", " ") \o <<" ">> \o fip[1]
             \o <<" ">> \o node
    ELSE <<",", " ">> \o replace(metadata.type, "_", " ") \o <<" ">> \o node

\* a lookup that indexes the table without testing membership first
describe_unguarded(vector_name, fip, node, terminology) ==
    IF vector_name \in DOMAIN terminology
    THEN LET metadata == terminology[vector_name]
         IN  IF node # None
             THEN Return(metadata.description \o node_text(metadata, fip, node[1]))
             ELSE Return(metadata.description)
    ELSE Outcome(None, "KeyError", 0, {})

\* the lookup of the resolved vector_name and the building of the description
describe(vector_name, fip, node, terminology) ==
    IF vector_name \in DOMAIN terminology
    THEN LET metadata == terminology[vector_name]
         IN  IF node # None
             THEN Return(metadata.description \o node_text(metadata, fip, node[1]))
             ELSE Return(metadata.description)
    ELSE Outcome(Some(vector_name), "", 1, {})

simulation_vector_description(v, terminology) ==
    LET split == name_and_node(v)
        form == region_form(split.vector_name, terminology)
    IN  describe(form.vector_name, form.fip, split.node, terminology)

\* the table as the caller passed it, the deactivation removed
activated(meta) == meta

\* smry_meta = None  (temporary deactivation)
deactivated(meta) == None

\* the test of the ending alone
named_historical_by_ending(base) == endswith(base, "H")

\* parts[0].endswith("H") and parts[0].startswith(("F", "G", "W"))
named_historical(base) == endswith(base, "H") /\ startswith(base, {"F", "G", "W"})

RECURSIVE historical_vector(_, _, _)
historical_vector(v, meta_arg, historical) ==
    LET meta == deactivated(meta_arg)
        parts == split_1(v, ":")
    IN  IF historical
        THEN LET hist_vec == join(":", [parts EXCEPT ![1] = @ \o <<"H">>])
                 back == historical_vector(hist_vec, meta, FALSE)
             IN  Outcome(IF back.returned = None THEN None ELSE Some(hist_vec),
                         back.raised, 0, {"forward"} \cup back.reached)
        ELSE IF meta = None
             THEN IF named_historical(parts[1])
                  THEN Outcome(Some(join(":", [parts EXCEPT ![1] = drop_last(@)])),
                               "", 0, {"heuristic"})
                  ELSE Outcome(None, "", 0, {"heuristic"})
             ELSE LET is_hist == IF v \in DOMAIN meta[1] THEN meta[1][v] ELSE FALSE
                  IN  Outcome(IF is_hist THEN Some(drop_last(parts[1])) ELSE None,
                              "", 0, {"table"})

----------------------------------------------------------------------------
(* The inputs: the tables the module loads and the arguments of a call     *)

\* every function from a subset of keys to values
PartialMaps(keys, values) == UNION {[d -> values] : d \in SUBSET keys}

UnitSets == {"METRIC", "FIELD"}
RawUnits == {"SM3", "BARSA"}
FriendlyUnits == {"Sm3", "bar"}
UnitTables == PartialMaps(UnitSets, PartialMaps(RawUnits, FriendlyUnits))

\* names the terminology table may hold: plain names, one with an inner
\* underscore, one as wide as a base name, one as wide as a region vector
\* and one with a colon
ShortNames == {<<"R">>, <<"R", "_", "R">>, <<"R", "R", "R", "R", "R">>}
WideNames == {<<"R", "_", "_", "_", "_", "F", "F", "F">>, <<"R", ":", "R">>}
OTHER_TYPE == <<"w", "_", "s">>

Metadata(name, type) == [description |-> <<"d">> \o name, type |-> type]

TerminologyTables ==
    {[name \in present |->
        Metadata(name, IF name \in region THEN REGION ELSE OTHER_TYPE)] :
        <<present, region>> \in
            {<<p, r>> \in (SUBSET (ShortNames \cup WideNames))
                             \X (SUBSET (ShortNames \cup WideNames)) : r \subseteq p}}

\* vectors written on the region form, alone, with a node, and one character wider
RegionVectors ==
    {base \o fip \o rest :
        base \in [1..BASE_NAME_WIDTH -> {"R", "_"}],
        fip \in {[i \in 1..(VECTOR_NAME_WIDTH - BASE_NAME_WIDTH) |-> c] : c \in {"F", "_"}},
        rest \in {<< >>, <<":">>, <<":", "R">>, <<"R">>, <<"R", ":", "R">>}}

DescriptionVectors == Strings(MaxDescLen) \cup RegionVectors

\* the tables of historical flags a caller may pass for vector v
SmryMetas(v) ==
    LET hist_vec == join(":", [split_1(v, ":") EXCEPT ![1] = @ \o <<"H">>])
    IN  {None} \cup {Some(t) : t \in PartialMaps({v, hist_vec}, BOOLEAN)}

----------------------------------------------------------------------------
(* State machine: a call is set up, then the function runs to completion   *)

Idle ==
    /\ pc = "call"
    /\ returned = None
    /\ raised = ""
    /\ warnings = 0
    /\ reached = {}

Finish(outcome) ==
    /\ pc = "call"
    /\ pc' = "done"
    /\ returned' = outcome.returned
    /\ raised' = outcome.raised
    /\ warnings' = warnings + outcome.warnings
    /\ reached' = outcome.reached
    /\ UNCHANGED <<op, SIMULATION_VECTOR_TERMINOLOGY, RESERVOIR_SIMULATION_UNIT_TERMINOLOGY,
                   vector, ecl_unit, unit_set, smry_meta, return_historical>>

InitUnit ==
    /\ Idle
    /\ op = "simulation_unit_reformat"
    /\ RESERVOIR_SIMULATION_UNIT_TERMINOLOGY \in UnitTables
    /\ SIMULATION_VECTOR_TERMINOLOGY = << >>
    /\ ecl_unit \in RawUnits \cup {"M"}
    /\ unit_set \in UnitSets \cup {"LAB"}
    /\ vector = << >>
    /\ smry_meta = None
    /\ return_historical = TRUE

CallUnitReformat ==
    /\ op = "simulation_unit_reformat"
    /\ Finish(simulation_unit_reformat(ecl_unit, unit_set,
                                       RESERVOIR_SIMULATION_UNIT_TERMINOLOGY))

SpecUnit == InitUnit /\ [][CallUnitReformat]_vars

InitBase ==
    /\ Idle
    /\ op = "simulation_vector_base"
    /\ RESERVOIR_SIMULATION_UNIT_TERMINOLOGY = << >>
    /\ SIMULATION_VECTOR_TERMINOLOGY = << >>
    /\ ecl_unit = ""
    /\ unit_set = ""
    /\ vector \in Strings(MaxLen)
    /\ smry_meta = None
    /\ return_historical = TRUE

CallVectorBase ==
    /\ op = "simulation_vector_base"
    /\ Finish(Return(simulation_vector_base(vector)))

SpecBase == InitBase /\ [][CallVectorBase]_vars

InitDescription ==
    /\ Idle
    /\ op = "simulation_vector_description"
    /\ RESERVOIR_SIMULATION_UNIT_TERMINOLOGY = << >>
    /\ SIMULATION_VECTOR_TERMINOLOGY \in TerminologyTables
    /\ ecl_unit = ""
    /\ unit_set = ""
    /\ vector \in DescriptionVectors
    /\ smry_meta = None
    /\ return_historical = TRUE

CallVectorDescription ==
    /\ op = "simulation_vector_description"
    /\ Finish(simulation_vector_description(vector, SIMULATION_VECTOR_TERMINOLOGY))

SpecDescription == InitDescription /\ [][CallVectorDescription]_vars

InitHistorical ==
    /\ Idle
    /\ op = "historical_vector"
    /\ RESERVOIR_SIMULATION_UNIT_TERMINOLOGY = << >>
    /\ SIMULATION_VECTOR_TERMINOLOGY = << >>
    /\ ecl_unit = ""
    /\ unit_set = ""
    /\ vector \in Strings(MaxLen)
    /\ smry_meta \in SmryMetas(vector)
    /\ return_historical \in BOOLEAN

CallHistoricalVector ==
    /\ op = "historical_vector"
    /\ Finish(historical_vector(vector, smry_meta, return_historical))

SpecHistorical == InitHistorical /\ [][CallHistoricalVector]_vars

Init == InitUnit \/ InitBase \/ InitDescription \/ InitHistorical

Next ==
    \/ CallUnitReformat
    \/ CallVectorBase
    \/ CallVectorDescription
    \/ CallHistoricalVector

Spec == Init /\ [][Next]_vars

----------------------------------------------------------------------------
(* Vocabulary of the properties, defined on the strings themselves         *)

Done(function) == pc = "done" /\ op = function

\* s up to, and without, its first c; all of s when it has none
RECURSIVE BeforeFirst(_, _)
BeforeFirst(s, c) ==
    IF s = << >> \/ Head(s) = c THEN << >>
    ELSE <<Head(s)>> \o BeforeFirst(Tail(s), c)

\* s from its first c on, c included; empty when it has none
RECURSIVE FromFirst(_, _)
FromFirst(s, c) ==
    IF s = << >> THEN << >>
    ELSE IF Head(s) = c THEN s
    ELSE FromFirst(Tail(s), c)

HasColon(s) == FromFirst(s, ":") # << >>

\* the node qualifier: what follows the first colon; empty when there is none
NodeOf(s) == IF HasColon(s) THEN Tail(FromFirst(s, ":")) ELSE << >>

IsPrefix(p, s) == Len(p) <= Len(s) /\ \A i \in 1..Len(p) : p[i] = s[i]

----------------------------------------------------------------------------
(* simulation_unit_reformat                                                *)

\* C6: for a unit set that is a key of the unit table the call returns the
\* mapped unit when the raw unit is a key of that set's table and the raw unit
\* itself otherwise, without failing; for a unit set that is no key of the
\* unit table the call fails with a KeyError, whatever the raw unit is.
C6_UnitReformat ==
    Done("simulation_unit_reformat") =>
        LET table == RESERVOIR_SIMULATION_UNIT_TERMINOLOGY
        IN  /\ unit_set \in DOMAIN table =>
                /\ raised = ""
                /\ ecl_unit \in DOMAIN table[unit_set] =>
                       returned = Some(table[unit_set][ecl_unit])
                /\ ecl_unit \notin DOMAIN table[unit_set] => returned = Some(ecl_unit)
            /\ unit_set \notin DOMAIN table =>
                /\ raised = "KeyError"
                /\ returned = None

\* an unknown unit set made the call fail although another set maps the unit
C6_Witness ==
    /\ Done("simulation_unit_reformat")
    /\ raised = "KeyError"
    /\ \E s \in DOMAIN RESERVOIR_SIMULATION_UNIT_TERMINOLOGY :
           ecl_unit \in DOMAIN RESERVOIR_SIMULATION_UNIT_TERMINOLOGY[s]

----------------------------------------------------------------------------
(* simulation_vector_base                                                  *)

\* C7: the call never fails and returns the part of the vector before its
\* first colon, cut again before its first underscore: the longest prefix of
\* the vector holding neither a colon nor an underscore.  A vector with
\* neither is returned unchanged.
C7_VectorBase ==
    Done("simulation_vector_base") =>
        /\ raised = ""
        /\ returned # None
        /\ returned[1] = BeforeFirst(BeforeFirst(vector, ":"), "_")
        /\ IsPrefix(returned[1], vector)
        /\ \A i \in 1..Len(returned[1]) : returned[1][i] \notin {":", "_"}
        /\ Len(returned[1]) < Len(vector) =>
               vector[Len(returned[1]) + 1] \in {":", "_"}
        /\ (\A i \in 1..Len(vector) : vector[i] \notin {":", "_"}) =>
               returned[1] = vector

\* a vector with an underscore in its name and one more in its node
C7_Witness ==
    /\ Done("simulation_vector_base")
    /\ Len(returned[1]) > 0
    /\ Len(vector) > Len(returned[1]) + 2
    /\ vector[Len(returned[1]) + 1] = "_"
    /\ \E i \in 1..Len(vector) : vector[i] = ":" /\ i < Len(vector)
           /\ vector[i + 1] = "_"

----------------------------------------------------------------------------
(* simulation_vector_description                                           *)

Table == SIMULATION_VECTOR_TERMINOLOGY

\* the part of the vector code before its first colon
NameOf(v) == BeforeFirst(v, ":")

\* s without its trailing underscores
Stripped(s) ==
    CHOOSE p \in {SubSeq(s, 1, k) : k \in 0..Len(s)} :
        /\ p = << >> \/ p[Len(p)] # "_"
        /\ \A i \in (Len(p) + 1)..Len(s) : s[i] = "_"

\* the first 5 characters of an 8-character name, trailing underscores stripped
RegionBase(name) == Stripped(SubSeq(name, 1, 5))

\* the last 3 characters of an 8-character name
RegionArray(name) == SubSeq(name, 6, 8)

\* the vector code is an 8-character name whose base is a region vector of the table
IsRegionCode(v) ==
    /\ Len(NameOf(v)) = 8
    /\ RegionBase(NameOf(v)) \in DOMAIN Table
    /\ Table[RegionBase(NameOf(v))].type = REGION

ResolvedName(v) == IF IsRegionCode(v) THEN RegionBase(NameOf(v)) ELSE NameOf(v)

TypeText(type) == [i \in 1..Len(type) |-> IF type[i] = "_" THEN " " ELSE type[i]]

\* the ordinary reading of a name: its description, followed by its type and
\* the node when the vector has one; the name itself when the table lacks it
PlainLookup(name, v) ==
    IF name \notin DOMAIN Table THEN name
    ELSE IF HasColon(v)
         THEN Table[name].description \o <<",", " ">> \o TypeText(Table[name].type)
                  \o <<" ">> \o NodeOf(v)
         ELSE Table[name].description

\* C1, as claimed: every base name of the table (a name without a colon),
\* given as the vector, comes back as the table's description of that name,
\* whatever else the table holds.
C1_AnyKnownName ==
    (/\ Done("simulation_vector_description")
     /\ vector \in DOMAIN Table
     /\ ~HasColon(vector)) =>
        returned = Some(Table[vector].description)

\* C1, amended: every name of the table that has no colon and is not an
\* 8-character name whose base is a region vector of the table, given as the
\* vector, comes back as the table's description of that name, with no
\* warning, whatever else the table holds.
C1_KnownName ==
    (/\ Done("simulation_vector_description")
     /\ vector \in DOMAIN Table
     /\ ~HasColon(vector)
     /\ ~IsRegionCode(vector)) =>
        /\ returned = Some(Table[vector].description)
        /\ warnings = 0
        /\ raised = ""

\* an 8-character name of the table, whose base is in the table but is no
\* region vector, was described as itself
C1_Witness ==
    /\ Done("simulation_vector_description")
    /\ vector \in DOMAIN Table
    /\ Len(vector) = 8
    /\ RegionBase(vector) \in DOMAIN Table
    /\ ~IsRegionCode(vector)
    /\ returned = Some(Table[vector].description)

\* C2, as claimed: every region code comes back as
\* "<description>, region <fip> <node>".
C2_AlwaysQualified ==
    (Done("simulation_vector_description") /\ IsRegionCode(vector)) =>
        returned = Some(Table[RegionBase(NameOf(vector))].description
                            \o <<",", " ">> \o REGION \o <<" ">>
                            \o RegionArray(NameOf(vector)) \o <<" ">> \o NodeOf(vector))

\* C2, amended: a region code with a node comes back as
\* "<description>, region <fip> <node>", the description being that of the
\* region base name and fip the last 3 characters of the name; a region code
\* without a node comes back as that description alone.
C2_RegionCode ==
    (Done("simulation_vector_description") /\ IsRegionCode(vector)) =>
        LET description == Table[RegionBase(NameOf(vector))].description
        IN  /\ HasColon(vector) =>
                returned = Some(description \o <<",", " ">> \o REGION \o <<" ">>
                                    \o RegionArray(NameOf(vector)) \o <<" ">>
                                    \o NodeOf(vector))
            /\ ~HasColon(vector) => returned = Some(description)

\* a padded region code with a non-empty node was described
C2_Witness ==
    /\ Done("simulation_vector_description")
    /\ IsRegionCode(vector)
    /\ Len(RegionBase(NameOf(vector))) < 5
    /\ HasColon(vector)
    /\ NodeOf(vector) # << >>
    /\ Len(returned[1]) > Len(Table[RegionBase(NameOf(vector))].description)

C4_ReturnsInput ==
    (Done("simulation_vector_description") /\ ResolvedName(vector) \notin DOMAIN Table) =>
        returned = Some(vector)

----------------------------------------------------------------------------
(* historical_vector                                                       *)

\* the base portion of the vector code and the rest of it, colon included
BaseOf(v) == BeforeFirst(v, ":")
QualifierOf(v) == FromFirst(v, ":")

StartsFGW(s) == s # << >> /\ Head(s) \in {"F", "G", "W"}
EndsH(s) == s # << >> /\ s[Len(s)] = "H"

\* the base portion with "H" appended, the node qualifier kept
Candidate(v) == BaseOf(v) \o <<"H">> \o QualifierOf(v)

\* C8: in forward mode the call returns the candidate (the base portion with
\* "H" appended, the node qualifier kept) exactly when the reverse-mode call
\* on the candidate returns a value, and None otherwise; it returns a value
\* if and only if the base portion starts with "F", "G" or "W".
C8_Forward ==
    (Done("historical_vector") /\ return_historical) =>
        /\ raised = ""
        /\ returned \in {None, Some(Candidate(vector))}
        /\ returned # None <=>
               historical_vector(Candidate(vector), smry_meta, FALSE).returned # None
        /\ returned # None <=> StartsFGW(BaseOf(vector))

\* a well vector with a node got its historical name
C8_Witness ==
    /\ Done("historical_vector")
    /\ return_historical
    /\ Len(BaseOf(vector)) > 1
    /\ NodeOf(vector) # << >>
    /\ returned = Some(Candidate(vector))

\* C9: in reverse mode with no flag table the call never fails; it returns
\* the vector with the one trailing "H" of its base portion removed, the node
\* qualifier unchanged, when the base portion ends with "H" and starts with
\* "F", "G" or "W", and None in every other case.
C9_Reverse ==
    (Done("historical_vector") /\ ~return_historical /\ smry_meta = None) =>
        /\ raised = ""
        /\ (EndsH(BaseOf(vector)) /\ StartsFGW(BaseOf(vector))) =>
               returned = Some(SubSeq(BaseOf(vector), 1, Len(BaseOf(vector)) - 1)
                                   \o QualifierOf(vector))
        /\ ~(EndsH(BaseOf(vector)) /\ StartsFGW(BaseOf(vector))) => returned = None

\* a base portion ending in "HH", followed by a colon, lost one "H"
C9_Witness ==
    /\ Done("historical_vector")
    /\ ~return_historical
    /\ smry_meta = None
    /\ HasColon(vector)
    /\ Len(BaseOf(vector)) > 2
    /\ BaseOf(vector)[Len(BaseOf(vector)) - 1] = "H"
    /\ returned # None
    /\ EndsH(BaseOf(returned[1]))

\* C10: the flag table is ignored: the call returns what it returns under
\* every other flag table, the absent one included, and the table-lookup
\* branch is entered in no call, the reverse-mode call of forward mode
\* included.
C10_TableIgnored ==
    Done("historical_vector") =>
        /\ "table" \notin reached
        /\ \A other \in SmryMetas(vector) :
               historical_vector(vector, other, return_historical).returned = returned

\* the table flags the vector as historical, its name does not, and the
\* reverse-mode call returned None
C10_Witness ==
    /\ Done("historical_vector")
    /\ ~return_historical
    /\ smry_meta # None
    /\ vector \in DOMAIN smry_meta[1]
    /\ smry_meta[1][vector]
    /\ EndsH(BaseOf(vector))
    /\ ~StartsFGW(BaseOf(vector))
    /\ returned = None
    /\ reached = {"heuristic"}

====
